---- MODULE Spec2Model ----
(***************************************************************************)
(* Model of the configuration module of langchain-lab                      *)
(* (src/src/config/settings.py): the Settings class built from the process *)
(* environment at import, validate_api_keys, get_llm, print_config_status  *)
(* and test_llm_connection.                                                *)
(*                                                                         *)
(* A Python str is a sequence of one-character strings, so that lower()    *)
(* and upper() are computed character by character.  An Optional[str] is a *)
(* record [some, val]: None has some = FALSE.                              *)
(***************************************************************************)
EXTENDS Integers, Sequences, FiniteSets, TLC

\* ------------------------------------------------------------------ bounds
\* At most this many of the non-credential environment variables are set in
\* one environment (every variable may be the one that is set).
MaxExtrasSet == 2

\* ----------------------------------------------------------- Python strings
UpperAlphabet ==
    << "A","B","C","D","E","F","G","H","I","J","K","L","M",
       "N","O","P","Q","R","S","T","U","V","W","X","Y","Z" >>
LowerAlphabet ==
    << "a","b","c","d","e","f","g","h","i","j","k","l","m",
       "n","o","p","q","r","s","t","u","v","w","x","y","z" >>

LowerChar(c) ==
    IF \E i \in 1..26 : UpperAlphabet[i] = c
    THEN LowerAlphabet[CHOOSE i \in 1..26 : UpperAlphabet[i] = c]
    ELSE c
UpperChar(c) ==
    IF \E i \in 1..26 : LowerAlphabet[i] = c
    THEN UpperAlphabet[CHOOSE i \in 1..26 : LowerAlphabet[i] = c]
    ELSE c

\* str.lower() and str.upper()
Lower(s) == [i \in 1..Len(s) |-> LowerChar(s[i])]
Upper(s) == [i \in 1..Len(s) |-> UpperChar(s[i])]

\* Optional[str]
None == [some |-> FALSE, val |-> << >>]
Some(s) == [some |-> TRUE, val |-> s]
\* bool(x) of an Optional[str]: None and "" are falsy
Truthy(o) == o.some /\ o.val # << >>

\* String literals of the source and of the inputs
S_empty == << >>
S_auto == << "a","u","t","o" >>
S_openai == << "o","p","e","n","a","i" >>
S_anthropic == << "a","n","t","h","r","o","p","i","c" >>
S_true == << "t","r","u","e" >>
S_false == << "f","a","l","s","e" >>
S_INFO == << "I","N","F","O" >>
S_langchain_lab == << "l","a","n","g","c","h","a","i","n","-","l","a","b" >>
S_gpt35 == << "g","p","t","-","3",".","5","-","t","u","r","b","o" >>
S_claude3 ==
    << "c","l","a","u","d","e","-","3","-","s","o","n","n","e","t","-",
       "2","0","2","4","0","2","2","9" >>
\* sample values an environment may hold
S_sk_oa == << "s","k","-","o","a" >>
S_sk_an == << "s","k","-","a","n" >>
S_ls_key == << "l","s","-","k" >>
S_TRUE == << "T","R","U","E" >>
S_debug == << "d","e","b","u","g" >>
S_verbose == << "v","e","r","b","o","s","e" >>
S_gpt4o == << "g","p","t","-","4","o" >>
S_haiku == << "h","a","i","k","u" >>
S_myproj == << "m","y","p","r","o","j" >>

\* ------------------------------------------------------ process environment
CredentialVars == { "OPENAI_API_KEY", "ANTHROPIC_API_KEY", "LANGCHAIN_API_KEY" }
ExtraVars ==
    { "LANGCHAIN_TRACING_V2", "LANGCHAIN_PROJECT", "DEFAULT_OPENAI_MODEL",
      "DEFAULT_ANTHROPIC_MODEL", "DEBUG", "LOG_LEVEL" }
EnvVars == CredentialVars \cup ExtraVars

\* the values each consumed variable takes when it is set
SetValues(name) ==
    CASE name = "OPENAI_API_KEY" -> { S_empty, S_sk_oa }
      [] name = "ANTHROPIC_API_KEY" -> { S_empty, S_sk_an }
      [] name = "LANGCHAIN_API_KEY" -> { S_empty, S_ls_key }
      [] name = "LANGCHAIN_TRACING_V2" -> { S_TRUE }
      [] name = "LANGCHAIN_PROJECT" -> { S_myproj }
      [] name = "DEFAULT_OPENAI_MODEL" -> { S_gpt4o, S_empty }
      [] name = "DEFAULT_ANTHROPIC_MODEL" -> { S_haiku }
      [] name = "DEBUG" -> { S_true }
      [] name = "LOG_LEVEL" -> { S_debug, S_verbose, S_empty }

\* the credential variables: each unset, or set to one of its values
CredentialChoices ==
    { c \in [CredentialVars -> {None} \cup { Some(s) : s \in
                 UNION { SetValues(n) : n \in CredentialVars } }] :
        \A n \in CredentialVars : c[n].some => c[n].val \in SetValues(n) }
\* the other variables: those that are set, with their values
ExtraChoices ==
    UNION { { x \in [X -> UNION { SetValues(n) : n \in X }] :
                \A n \in X : x[n] \in SetValues(n) } :
            X \in { Y \in SUBSET ExtraVars : Cardinality(Y) <= MaxExtrasSet } }
\* an environment maps every consumed variable to None (unset) or a string
Environments ==
    { [n \in EnvVars |->
          IF n \in CredentialVars THEN c[n]
          ELSE IF n \in DOMAIN x THEN Some(x[n]) ELSE None] :
      c \in CredentialChoices, x \in ExtraChoices }

\* os.getenv(name) and os.getenv(name, default)
getenv(e, name) == e[name]
getenv_default(e, name, default) == IF e[name].some THEN e[name].val ELSE default

\* ------------------------------------------------------------ Settings
\* the class body: every attribute is read from the environment once
Settings(e) ==
    [ OPENAI_API_KEY |-> getenv(e, "OPENAI_API_KEY"),
      ANTHROPIC_API_KEY |-> getenv(e, "ANTHROPIC_API_KEY"),
      LANGCHAIN_API_KEY |-> getenv(e, "LANGCHAIN_API_KEY"),
      LANGCHAIN_TRACING_V2 |->
          (Lower(getenv_default(e, "LANGCHAIN_TRACING_V2", S_false)) = S_true),
      LANGCHAIN_PROJECT |-> getenv_default(e, "LANGCHAIN_PROJECT", S_langchain_lab),
      DEFAULT_OPENAI_MODEL |-> getenv_default(e, "DEFAULT_OPENAI_MODEL", S_gpt35),
      DEFAULT_ANTHROPIC_MODEL |->
          getenv_default(e, "DEFAULT_ANTHROPIC_MODEL", S_claude3),
      DEBUG |-> (Lower(getenv_default(e, "DEBUG", S_false)) = S_true),
      LOG_LEVEL |-> getenv_default(e, "LOG_LEVEL", S_INFO) ]

\* the upper-case attributes of the logging module that are levels
LoggingLevelNames ==
    { << "C","R","I","T","I","C","A","L" >>, << "F","A","T","A","L" >>,
      << "E","R","R","O","R" >>, << "W","A","R","N","I","N","G" >>,
      << "W","A","R","N" >>, S_INFO, << "D","E","B","U","G" >>,
      << "N","O","T","S","E","T" >> }

\* setup_logging: getattr(logging, LOG_LEVEL.upper()) raises AttributeError for
\* a name the logging module does not have
setup_logging(S) ==
    IF Upper(S.LOG_LEVEL) \in LoggingLevelNames
    THEN [raised |-> FALSE, err |-> "none"]
    ELSE [raised |-> TRUE, err |-> "AttributeError"]

\* ------------------------------------------------------------ errors
\* the ValueErrors the module raises, named by the line that raises them
E_NoProviderKey == "ValueError: At least one of OPENAI_API_KEY or ANTHROPIC_API_KEY must be set"
E_NoApiKeysFound == "ValueError: No API keys found"
E_OpenAIKeyNotFound == "ValueError: OPENAI_API_KEY not found"
E_AnthropicKeyNotFound == "ValueError: ANTHROPIC_API_KEY not found"
E_UnsupportedProvider == "ValueError: Unsupported provider"
\* raised by Python and by the provider libraries
E_DuplicateKeyword == "TypeError: got multiple values for keyword argument"
E_ProviderConstructor == "provider library: constructor raised"
E_ProviderCall == "provider library: invoke raised"

Raise(e) == [raised |-> TRUE, err |-> e]
Return(v) == [raised |-> FALSE, err |-> "none", value |-> v]

\* ------------------------------------------------------ validate_api_keys
\* mutant: the langsmith flag copied from the anthropic key
KeyStatus_LangsmithFromAnthropic(S) ==
    [ k \in { "openai", "anthropic", "langsmith" } |->
        CASE k = "openai" -> Truthy(S.OPENAI_API_KEY)
          [] k = "anthropic" -> Truthy(S.ANTHROPIC_API_KEY)
          [] k = "langsmith" -> Truthy(S.ANTHROPIC_API_KEY) ]

\* the status dict
KeyStatus(S) ==
    [ k \in { "openai", "anthropic", "langsmith" } |->
        CASE k = "openai" -> Truthy(S.OPENAI_API_KEY)
          [] k = "anthropic" -> Truthy(S.ANTHROPIC_API_KEY)
          [] k = "langsmith" -> Truthy(S.LANGCHAIN_API_KEY) ]

\* mutant: raises as soon as either provider key is missing
NoProviderKey_EitherMissing(S) ==
    ~Truthy(S.OPENAI_API_KEY) \/ ~Truthy(S.ANTHROPIC_API_KEY)

\* the guard of the missing-credentials raise
NoProviderKey(S) == ~Truthy(S.OPENAI_API_KEY) /\ ~Truthy(S.ANTHROPIC_API_KEY)

validate_api_keys(S) ==
    IF NoProviderKey(S) THEN Raise(E_NoProviderKey) ELSE Return(KeyStatus(S))

\* ------------------------------------------------------------- get_llm
\* keyword arguments a caller may pass on to the constructor
KwargNames == { "temperature", "max_tokens", "api_key" }
KwargValue(name) ==
    CASE name = "temperature" -> "0.7"
      [] name = "max_tokens" -> "100"
      [] name = "api_key" -> "sk-caller"
KwargsArgs == { [n \in X |-> KwargValue(n)] : X \in SUBSET KwargNames }
NoKwargs == [n \in {} |-> "none"]

\* the provider-library constructor call  Cls(api_key=..., model=..., **kwargs):
\* Python rejects a keyword given twice; the library may itself raise
\* (ctorOk = FALSE); otherwise the client holds what it was given
Construct(cls, api_key, model, kwargs, ctorOk) ==
    IF { "api_key", "model" } \cap DOMAIN kwargs # {}
    THEN [raised |-> TRUE, err |-> E_DuplicateKeyword, cls |-> cls]
    ELSE IF ~ctorOk
    THEN [raised |-> TRUE, err |-> E_ProviderConstructor, cls |-> cls]
    ELSE Return([cls |-> cls, api_key |-> api_key, model |-> model,
                 kwargs |-> kwargs])

\* model or default
ModelOr(model, default) == IF Truthy(model) THEN model.val ELSE default

\* mutant: the preference order swapped
AutoSelect_AnthropicFirst(S) ==
    IF Truthy(S.ANTHROPIC_API_KEY) THEN Return(S_anthropic)
    ELSE IF Truthy(S.OPENAI_API_KEY) THEN Return(S_openai)
    ELSE Raise(E_NoApiKeysFound)

\* the "auto" branch: the provider picked from the keys that are set
AutoSelect(S) ==
    IF Truthy(S.OPENAI_API_KEY) THEN Return(S_openai)
    ELSE IF Truthy(S.ANTHROPIC_API_KEY) THEN Return(S_anthropic)
    ELSE Raise(E_NoApiKeysFound)

\* mutant: the client built with the other provider's key
AnthropicBranch_OpenAIKey(S, model, kwargs, ctorOk) ==
    IF ~Truthy(S.ANTHROPIC_API_KEY) THEN Raise(E_AnthropicKeyNotFound)
    ELSE Construct("ChatAnthropic", S.OPENAI_API_KEY.val,
                   ModelOr(model, S.DEFAULT_ANTHROPIC_MODEL), kwargs, ctorOk)

\* mutant: the default model of the other provider
AnthropicBranch_OpenAIDefault(S, model, kwargs, ctorOk) ==
    IF ~Truthy(S.ANTHROPIC_API_KEY) THEN Raise(E_AnthropicKeyNotFound)
    ELSE Construct("ChatAnthropic", S.ANTHROPIC_API_KEY.val,
                   ModelOr(model, S.DEFAULT_OPENAI_MODEL), kwargs, ctorOk)

\* the anthropic branch
AnthropicBranch(S, model, kwargs, ctorOk) ==
    IF ~Truthy(S.ANTHROPIC_API_KEY) THEN Raise(E_AnthropicKeyNotFound)
    ELSE Construct("ChatAnthropic", S.ANTHROPIC_API_KEY.val,
                   ModelOr(model, S.DEFAULT_ANTHROPIC_MODEL), kwargs, ctorOk)

\* mutant: falls back to the other provider when its own key is missing
OpenAIBranch_FallsBack(S, model, kwargs, ctorOk) ==
    IF ~Truthy(S.OPENAI_API_KEY) THEN AnthropicBranch(S, model, kwargs, ctorOk)
    ELSE Construct("ChatOpenAI", S.OPENAI_API_KEY.val,
                   ModelOr(model, S.DEFAULT_OPENAI_MODEL), kwargs, ctorOk)

\* the openai branch
OpenAIBranch(S, model, kwargs, ctorOk) ==
    IF ~Truthy(S.OPENAI_API_KEY) THEN Raise(E_OpenAIKeyNotFound)
    ELSE Construct("ChatOpenAI", S.OPENAI_API_KEY.val,
                   ModelOr(model, S.DEFAULT_OPENAI_MODEL), kwargs, ctorOk)

\* mutant: the provider name compared without lower()
Dispatch_CaseSensitive(S, provider, model, kwargs, ctorOk) ==
    IF provider = S_openai THEN OpenAIBranch(S, model, kwargs, ctorOk)
    ELSE IF provider = S_anthropic THEN AnthropicBranch(S, model, kwargs, ctorOk)
    ELSE Raise(E_UnsupportedProvider)

\* the if / elif / else on provider.lower()
Dispatch(S, provider, model, kwargs, ctorOk) ==
    IF Lower(provider) = S_openai THEN OpenAIBranch(S, model, kwargs, ctorOk)
    ELSE IF Lower(provider) = S_anthropic
         THEN AnthropicBranch(S, model, kwargs, ctorOk)
    ELSE Raise(E_UnsupportedProvider)

\* mutant: the credentials are not validated before the provider is looked at
get_llm_NoValidate(S, provider, model, kwargs, ctorOk) ==
    IF provider = S_auto
    THEN LET a == AutoSelect(S) IN
         IF a.raised THEN Raise(a.err)
         ELSE Dispatch(S, a.value, model, kwargs, ctorOk)
    ELSE Dispatch(S, provider, model, kwargs, ctorOk)

get_llm(S, provider, model, kwargs, ctorOk) ==
    LET v == validate_api_keys(S) IN
    IF v.raised THEN Raise(v.err)
    ELSE IF provider = S_auto
         THEN LET a == AutoSelect(S) IN
              IF a.raised THEN Raise(a.err)
              ELSE Dispatch(S, a.value, model, kwargs, ctorOk)
    ELSE Dispatch(S, provider, model, kwargs, ctorOk)

\* --------------------------------------------------- print_config_status
\* the lines printed, as the values they show
print_config_status(S) ==
    LET v == validate_api_keys(S) IN
    IF v.raised THEN Raise(v.err)
    ELSE Return([ openai_set |-> v.value["openai"],
                  anthropic_set |-> v.value["anthropic"],
                  langsmith_set |-> v.value["langsmith"],
                  tracing |-> S.LANGCHAIN_TRACING_V2,
                  project |-> S.LANGCHAIN_PROJECT,
                  debug |-> S.DEBUG,
                  log_level |-> S.LOG_LEVEL,
                  openai_model |->
                      IF v.value["openai"] THEN Some(S.DEFAULT_OPENAI_MODEL)
                      ELSE None,
                  anthropic_model |->
                      IF v.value["anthropic"] THEN Some(S.DEFAULT_ANTHROPIC_MODEL)
                      ELSE None ])

\* --------------------------------------------------- test_llm_connection
\* llm.invoke(...): one outbound call to the provider, which answers or raises
Invoke(client, invokeOk) ==
    IF invokeOk THEN Return("OK") ELSE Raise(E_ProviderCall)

\* mutant: the invoke call made outside the try block
test_llm_connection_InvokeUncaught(S, provider, ctorOk, invokeOk) ==
    LET g == get_llm(S, provider, None, NoKwargs, ctorOk) IN
    IF g.raised
    THEN [ raised |-> FALSE, err |-> "none", value |-> FALSE,
           caught |-> g.err, outbound |-> << >>,
           printed |-> << Upper(provider), "connection failed" >> ]
    ELSE LET r == Invoke(g.value, invokeOk) IN
         IF r.raised
         THEN [ raised |-> TRUE, err |-> r.err, value |-> FALSE,
                caught |-> "none", outbound |-> << "invoke" >>,
                printed |-> << >> ]
         ELSE [ raised |-> FALSE, err |-> "none", value |-> TRUE,
                caught |-> "none", outbound |-> << "invoke" >>,
                printed |-> << Upper(provider), "connection successful" >> ]

\* mutant: a failed invoke is tried once more
test_llm_connection_Retries(S, provider, ctorOk, invokeOk) ==
    LET g == get_llm(S, provider, None, NoKwargs, ctorOk) IN
    IF g.raised
    THEN [ raised |-> FALSE, err |-> "none", value |-> FALSE,
           caught |-> g.err, outbound |-> << >>,
           printed |-> << Upper(provider), "connection failed" >> ]
    ELSE LET r == Invoke(g.value, invokeOk) IN
         IF r.raised
         THEN [ raised |-> FALSE, err |-> "none", value |-> FALSE,
                caught |-> r.err, outbound |-> << "invoke", "invoke" >>,
                printed |-> << Upper(provider), "connection failed" >> ]
         ELSE [ raised |-> FALSE, err |-> "none", value |-> TRUE,
                caught |-> "none", outbound |-> << "invoke" >>,
                printed |-> << Upper(provider), "connection successful" >> ]

\* try: get_llm, invoke, return True; except Exception: return False.
\* outbound lists the calls made to the provider during the call.
test_llm_connection(S, provider, ctorOk, invokeOk) ==
    LET g == get_llm(S, provider, None, NoKwargs, ctorOk) IN
    IF g.raised
    THEN [ raised |-> FALSE, err |-> "none", value |-> FALSE,
           caught |-> g.err, outbound |-> << >>,
           printed |-> << Upper(provider), "connection failed" >> ]
    ELSE LET r == Invoke(g.value, invokeOk) IN
         IF r.raised
         THEN [ raised |-> FALSE, err |-> "none", value |-> FALSE,
                caught |-> r.err, outbound |-> << "invoke" >>,
                printed |-> << Upper(provider), "connection failed" >> ]
         ELSE [ raised |-> FALSE, err |-> "none", value |-> TRUE,
                caught |-> "none", outbound |-> << "invoke" >>,
                printed |-> << Upper(provider), "connection successful" >> ]

\* ------------------------------------------- lesson 1 (01_simple_llm.py)
\* Each example catches every exception of its body, so it always returns;
\* its result here is the calls it made to the provider, in order.

\* the calls of one  try: llm = get_llm(...); llm.invoke(...)
OneCall(g, what) == IF g.raised THEN << >> ELSE << what >>

\* simple_llm_call: get_llm("auto", temperature=0.7), one invoke
simple_llm_call(S, ctorOk) ==
    OneCall(get_llm(S, S_auto, None, [temperature |-> "0.7"], ctorOk), "invoke")

\* compare_providers: for "openai" then "anthropic", each in its own try,
\* get_llm(provider, temperature=0.3) and one invoke
compare_providers(S, ctorOks) ==
    OneCall(get_llm(S, S_openai, None, [temperature |-> "0.3"], ctorOks[1]),
            "invoke")
    \o OneCall(get_llm(S, S_anthropic, None, [temperature |-> "0.3"], ctorOks[2]),
               "invoke")

\* demonstrate_parameters: for three temperatures, each in its own try,
\* get_llm("auto", temperature=temp, max_tokens=100) and one invoke
demonstrate_parameters(S, ctorOks) ==
    LET call(i, temp) ==
            OneCall(get_llm(S, S_auto, None,
                            [temperature |-> temp, max_tokens |-> "100"],
                            ctorOks[i]), "invoke")
    IN call(1, "0.0") \o call(2, "0.5") \o call(3, "1.0")

\* batch_processing: one get_llm("auto", temperature=0.2), then an invoke per
\* question in one try: the first invoke that raises ends the loop (invokesOk
\* is the number of invokes that answer before one raises)
batch_processing(S, ctorOk, invokesOk) ==
    LET g == get_llm(S, S_auto, None, [temperature |-> "0.2"], ctorOk)
        n == IF invokesOk < 3 THEN invokesOk + 1 ELSE 3
    IN IF g.raised THEN << >> ELSE [i \in 1..n |-> "invoke"]

\* streaming_response: get_llm("auto", temperature=0.7), one stream
streaming_response(S, ctorOk) ==
    OneCall(get_llm(S, S_auto, None, [temperature |-> "0.7"], ctorOk), "stream")

\* main, after print_config_status(): an exception leaves main
AfterPrintConfigStatus(r) ==
    IF r.raised THEN "raised" ELSE "test_llm_connection"

\* mutant: the examples run whatever the connection test returned
AfterTestConnection_IgnoresResult(ok) == "simple_llm_call"

\* main, after test_llm_connection(): if not ...: return
AfterTestConnection(ok) == IF ok THEN "simple_llm_call" ELSE "returned"

\* ------------------------------------------------------------ arguments
S_OpenAI == << "O","p","e","n","A","I" >>
S_ANTHROPIC == << "A","N","T","H","R","O","P","I","C" >>
S_AUTO == << "A","U","T","O" >>
S_Auto == << "A","u","t","o" >>
S_carrot == << "c","a","r","r","o","t" >>
S_o1 == << "o","1" >>
ProviderArgs ==
    { S_auto, S_openai, S_anthropic, S_OpenAI, S_ANTHROPIC, S_AUTO, S_Auto,
      S_carrot }
ModelArgs == { None, Some(S_empty), Some(S_o1) }

\* ---------------------------------------------------------- state machine
VARIABLES
    env,        \* the process environment
    pc,         \* "boot" before the module is imported; "import_failed" when
                \* the import raised; else "ready" (the caller is about to make
                \* a call) or "returned" (a call has returned or raised)
    settings,   \* the Settings class attributes, set by the import
    last,       \* the last call made: its name, arguments and result
    outbound,   \* the calls that call made to the provider, in order
    main        \* lesson 1's main (pc = "main"): the statement it is at, the
                \* steps it has run and what the connection test returned

vars == << env, pc, settings, last, outbound, main >>

NotLoaded == [loaded |-> FALSE]
NoCall == [op |-> "none"]
NoMain == [at |-> "none", trace |-> << >>, connected |-> "untested"]

Init ==
    /\ env \in Environments
    /\ pc = "boot"
    /\ settings = NotLoaded
    /\ last = NoCall
    /\ outbound = << >>
    /\ main = NoMain

\* importing config.settings: the class body, then Settings.setup_logging();
\* when that raises the import fails and the module is not available
Import ==
    /\ pc = "boot"
    /\ LET S == Settings(env) IN
         IF setup_logging(S).raised
         THEN pc' = "import_failed" /\ settings' = NotLoaded
         ELSE pc' = "ready" /\ settings' = S
    /\ UNCHANGED << env, last, outbound, main >>

CallValidateApiKeys ==
    /\ pc = "ready"
    /\ last' = [op |-> "validate_api_keys", res |-> validate_api_keys(settings)]
    /\ outbound' = << >>
    /\ pc' = "returned"
    /\ UNCHANGED << env, settings, main >>

CallGetLlm ==
    /\ pc = "ready"
    /\ \E provider \in ProviderArgs, model \in ModelArgs,
          kwargs \in KwargsArgs, ctorOk \in BOOLEAN :
         last' = [ op |-> "get_llm", provider |-> provider, model |-> model,
                   kwargs |-> kwargs, ctorOk |-> ctorOk,
                   res |-> get_llm(settings, provider, model, kwargs, ctorOk) ]
    /\ outbound' = << >>
    /\ pc' = "returned"
    /\ UNCHANGED << env, settings, main >>

CallPrintConfigStatus ==
    /\ pc = "ready"
    /\ last' = [op |-> "print_config_status", res |-> print_config_status(settings)]
    /\ outbound' = << >>
    /\ pc' = "returned"
    /\ UNCHANGED << env, settings, main >>

CallTestLlmConnection ==
    /\ pc = "ready"
    /\ \E provider \in ProviderArgs, ctorOk \in BOOLEAN, invokeOk \in BOOLEAN :
         LET r == test_llm_connection(settings, provider, ctorOk, invokeOk) IN
         /\ last' = [ op |-> "test_llm_connection", provider |-> provider,
                      ctorOk |-> ctorOk, invokeOk |-> invokeOk, res |-> r ]
         /\ outbound' = r.outbound
    /\ pc' = "returned"
    /\ UNCHANGED << env, settings, main >>

\* the caller goes on to its next statement: a result printed or caught is
\* not kept, and any further call may follow
Continue ==
    /\ pc = "returned"
    /\ pc' = "ready"
    /\ last' = NoCall
    /\ outbound' = << >>
    /\ UNCHANGED << env, settings, main >>

\* main of lesson 1, one action per statement.  The script imports
\* config.settings first, so main starts from a loaded module.
MainPrintConfigStatus ==
    /\ pc = "ready"
    /\ pc' = "main"
    /\ main' = [ at |-> AfterPrintConfigStatus(print_config_status(settings)),
                 trace |-> << "print_config_status" >>,
                 connected |-> "untested" ]
    /\ outbound' = << >>
    /\ UNCHANGED << env, settings, last >>

MainTestLlmConnection ==
    /\ pc = "main"
    /\ main.at = "test_llm_connection"
    /\ \E ctorOk \in BOOLEAN, invokeOk \in BOOLEAN :
         LET r == test_llm_connection(settings, S_auto, ctorOk, invokeOk) IN
         /\ main' = [ at |-> AfterTestConnection(r.value),
                      trace |-> Append(main.trace, "test_llm_connection"),
                      connected |-> IF r.value THEN "True" ELSE "False" ]
         /\ outbound' = r.outbound
    /\ UNCHANGED << env, pc, settings, last >>

\* an example runs, makes its calls and main goes on to the next statement
RunExample(name, calls, next) ==
    /\ pc = "main"
    /\ main.at = name
    /\ main' = [main EXCEPT !.at = next, !.trace = Append(@, name)]
    /\ outbound' = calls
    /\ UNCHANGED << env, pc, settings, last >>

MainSimpleLlmCall ==
    \E ctorOk \in BOOLEAN :
        RunExample("simple_llm_call", simple_llm_call(settings, ctorOk),
                   "compare_providers")

MainCompareProviders ==
    \E ctorOks \in [1..2 -> BOOLEAN] :
        RunExample("compare_providers", compare_providers(settings, ctorOks),
                   "demonstrate_parameters")

MainDemonstrateParameters ==
    \E ctorOks \in [1..3 -> BOOLEAN] :
        RunExample("demonstrate_parameters",
                   demonstrate_parameters(settings, ctorOks), "batch_processing")

MainBatchProcessing ==
    \E ctorOk \in BOOLEAN, invokesOk \in 0..3 :
        RunExample("batch_processing",
                   batch_processing(settings, ctorOk, invokesOk),
                   "streaming_response")

MainStreamingResponse ==
    \E ctorOk \in BOOLEAN :
        RunExample("streaming_response", streaming_response(settings, ctorOk),
                   "done")

Next ==
    \/ Import
    \/ CallValidateApiKeys
    \/ CallGetLlm
    \/ CallPrintConfigStatus
    \/ CallTestLlmConnection
    \/ Continue
    \/ MainPrintConfigStatus
    \/ MainTestLlmConnection
    \/ MainSimpleLlmCall
    \/ MainCompareProviders
    \/ MainDemonstrateParameters
    \/ MainBatchProcessing
    \/ MainStreamingResponse

Spec == Init /\ [][Next]_vars

\* ================================================================ claims
\* A key is present when its environment variable is set and not empty.
KeyPresent(name) == env[name].some /\ env[name].val # << >>
BothProviderKeysAbsent ==
    ~KeyPresent("OPENAI_API_KEY") /\ ~KeyPresent("ANTHROPIC_API_KEY")

\* the error taxonomy of the specification, over the errors the code raises
MissingCredentialsErrors ==
    { E_NoProviderKey, E_NoApiKeysFound, E_OpenAIKeyNotFound, E_AnthropicKeyNotFound }
ConstructorErrors == { E_DuplicateKeyword, E_ProviderConstructor }

Validated == pc = "returned" /\ last.op = "validate_api_keys"
GotLlm == pc = "returned" /\ last.op = "get_llm"
Tested == pc = "returned" /\ last.op = "test_llm_connection"

\* C1: validate_api_keys raises the missing-credentials error exactly when the
\* OpenAI key and the Anthropic key are both absent (unset or empty) and
\* returns otherwise; the tracing key plays no part in it.
C1_ValidateFailsIffBothKeysAbsent ==
    Validated =>
        /\ last.res.raised <=> BothProviderKeysAbsent
        /\ last.res.raised => last.res.err \in MissingCredentialsErrors

\* C1 witness: validation has failed although the tracing key is present, the
\* OpenAI key being unset and the Anthropic key set to the empty string.
C1_Witness ==
    /\ Validated
    /\ last.res.raised
    /\ KeyPresent("LANGCHAIN_API_KEY")
    /\ ~env["OPENAI_API_KEY"].some
    /\ env["ANTHROPIC_API_KEY"] = Some(S_empty)

\* C2 as stated: the status returned by validate_api_keys has exactly the
\* entries "openai", "anthropic" and "tracing", each true iff its key is present.
C2_StatusHasTracingEntry ==
    (Validated /\ ~last.res.raised) =>
        /\ DOMAIN last.res.value = { "openai", "anthropic", "tracing" }
        /\ last.res.value["openai"] = KeyPresent("OPENAI_API_KEY")
        /\ last.res.value["anthropic"] = KeyPresent("ANTHROPIC_API_KEY")
        /\ last.res.value["tracing"] = KeyPresent("LANGCHAIN_API_KEY")

\* C2 amended: the status returned by validate_api_keys has exactly the entries
\* "openai", "anthropic" and "langsmith", each a boolean that is true iff the
\* OpenAI key, the Anthropic key, the tracing key is present and not empty.
C2_StatusRecord ==
    (Validated /\ ~last.res.raised) =>
        /\ DOMAIN last.res.value = { "openai", "anthropic", "langsmith" }
        /\ \A k \in DOMAIN last.res.value : last.res.value[k] \in BOOLEAN
        /\ last.res.value["openai"] = KeyPresent("OPENAI_API_KEY")
        /\ last.res.value["anthropic"] = KeyPresent("ANTHROPIC_API_KEY")
        /\ last.res.value["langsmith"] = KeyPresent("LANGCHAIN_API_KEY")

\* C2 witness: a status was returned with the Anthropic key present and the
\* tracing key set but empty, so the flags differ from one another.
C2_Witness ==
    /\ Validated
    /\ ~last.res.raised
    /\ KeyPresent("ANTHROPIC_API_KEY")
    /\ ~KeyPresent("OPENAI_API_KEY")
    /\ env["LANGCHAIN_API_KEY"] = Some(S_empty)

\* the provider class a get_llm call went to: that of the client returned, or
\* of the constructor call that raised
ConstructorReached ==
    GotLlm /\ (last.res.raised => last.res.err \in ConstructorErrors)
ClassReached == IF last.res.raised THEN last.res.cls ELSE last.res.value.cls

\* C3: with at least one provider key present, get_llm("auto") goes to OpenAI
\* whenever the OpenAI key is present and to Anthropic exactly when the OpenAI
\* key is absent and the Anthropic key is present.
C3_AutoPrefersOpenAI ==
    (GotLlm /\ last.provider = S_auto /\ ~BothProviderKeysAbsent) =>
        /\ ConstructorReached
        /\ ClassReached =
              IF KeyPresent("OPENAI_API_KEY") THEN "ChatOpenAI" ELSE "ChatAnthropic"

\* C3 witness: get_llm("auto") returned an OpenAI client with both keys present.
C3_Witness ==
    /\ GotLlm
    /\ last.provider = S_auto
    /\ KeyPresent("OPENAI_API_KEY")
    /\ KeyPresent("ANTHROPIC_API_KEY")
    /\ ~last.res.raised
    /\ last.res.value.cls = "ChatOpenAI"

\* the key variable and the client class of an explicitly named provider
KeyVarOf(p) == IF p = S_openai THEN "OPENAI_API_KEY" ELSE "ANTHROPIC_API_KEY"
ClassOf(p) == IF p = S_openai THEN "ChatOpenAI" ELSE "ChatAnthropic"

\* C4: get_llm(p) for p "openai" or "anthropic" raises the missing-credentials
\* error when p's key is absent, whatever the other key is, and otherwise calls
\* p's constructor with no fallback; the client is returned unless the
\* constructor call itself raises.
C4_ExplicitProviderNoFallback ==
    (GotLlm /\ last.provider \in { S_openai, S_anthropic }) =>
        IF KeyPresent(KeyVarOf(last.provider))
        THEN /\ ConstructorReached
             /\ ClassReached = ClassOf(last.provider)
             /\ (last.ctorOk /\ "api_key" \notin DOMAIN last.kwargs)
                    => ~last.res.raised
        ELSE /\ last.res.raised
             /\ last.res.err \in MissingCredentialsErrors

\* C4 witness: get_llm("openai") raised the missing-credentials error although
\* the Anthropic key is present.
C4_Witness ==
    /\ GotLlm
    /\ last.provider = S_openai
    /\ ~KeyPresent("OPENAI_API_KEY")
    /\ KeyPresent("ANTHROPIC_API_KEY")
    /\ last.res.raised
    /\ last.res.err = E_OpenAIKeyNotFound

\* C5 as stated: for every configuration, get_llm with a provider that is none
\* of "openai", "anthropic", "auto" raises the unsupported-provider error and
\* not the missing-credentials error.
C5_UnsupportedForAnySnapshot ==
    (GotLlm /\ last.provider \notin { S_openai, S_anthropic, S_auto }) =>
        /\ last.res.raised
        /\ last.res.err = E_UnsupportedProvider

\* C5 amended: get_llm with a provider that is not "auto" and whose lower-case
\* form is neither "openai" nor "anthropic" always raises: the
\* unsupported-provider error when at least one provider key is present, and
\* the missing-credentials error of validate_api_keys when both are absent.
C5_UnsupportedAfterValidation ==
    (/\ GotLlm
     /\ last.provider # S_auto
     /\ Lower(last.provider) \notin { S_openai, S_anthropic }) =>
        /\ last.res.raised
        /\ last.res.err =
              IF BothProviderKeysAbsent THEN E_NoProviderKey
              ELSE E_UnsupportedProvider

\* C5 witness: get_llm("carrot") raised the unsupported-provider error with
\* only the Anthropic key present.
C5_Witness ==
    /\ GotLlm
    /\ last.provider = S_carrot
    /\ ~KeyPresent("OPENAI_API_KEY")
    /\ KeyPresent("ANTHROPIC_API_KEY")
    /\ last.res.raised
    /\ last.res.err = E_UnsupportedProvider

\* C6: a client returned by get_llm holds a non-empty API key, which is the
\* key of the client's own provider; none is returned when both provider keys
\* are absent.
C6_ClientHoldsOwnKey ==
    (GotLlm /\ ~last.res.raised) =>
        LET c == last.res.value
            k == IF c.cls = "ChatOpenAI" THEN "OPENAI_API_KEY"
                 ELSE "ANTHROPIC_API_KEY"
        IN /\ c.cls \in { "ChatOpenAI", "ChatAnthropic" }
           /\ c.api_key # << >>
           /\ KeyPresent(k)
           /\ c.api_key = env[k].val
           /\ ~BothProviderKeysAbsent

\* C6 witness: an Anthropic client was returned, built with the Anthropic key,
\* while the OpenAI key is present too.
C6_Witness ==
    /\ GotLlm
    /\ ~last.res.raised
    /\ last.res.value.cls = "ChatAnthropic"
    /\ last.res.value.api_key = S_sk_an
    /\ KeyPresent("OPENAI_API_KEY")

\* the configured default model of a client class: the environment variable
\* when it is set, else the built-in name
DefaultModelOf(cls) ==
    IF cls = "ChatOpenAI"
    THEN IF env["DEFAULT_OPENAI_MODEL"].some THEN env["DEFAULT_OPENAI_MODEL"].val
         ELSE S_gpt35
    ELSE IF env["DEFAULT_ANTHROPIC_MODEL"].some
         THEN env["DEFAULT_ANTHROPIC_MODEL"].val
         ELSE S_claude3

\* C7 as stated: a client returned by get_llm holds the default model of its
\* own provider when no model override is given, exactly the override when one
\* is given, and exactly the caller's keyword options.
C7_OverrideAlwaysUsed ==
    (GotLlm /\ ~last.res.raised) =>
        /\ last.res.value.model =
              IF last.model.some THEN last.model.val
              ELSE DefaultModelOf(last.res.value.cls)
        /\ last.res.value.kwargs = last.kwargs

\* C7 amended: a client returned by get_llm holds exactly the override when a
\* non-empty model override is given, the default model of its own provider
\* when the override is absent or the empty string, and exactly the caller's
\* keyword options, none added or dropped.
C7_ModelAndOptions ==
    (GotLlm /\ ~last.res.raised) =>
        /\ last.res.value.model =
              IF last.model.some /\ last.model.val # << >> THEN last.model.val
              ELSE DefaultModelOf(last.res.value.cls)
        /\ last.res.value.kwargs = last.kwargs

\* C7 witness: an Anthropic client was returned with no override, temperature
\* and max_tokens passed, and the OpenAI default model set in the environment.
C7_Witness ==
    /\ GotLlm
    /\ ~last.res.raised
    /\ last.res.value.cls = "ChatAnthropic"
    /\ last.model = None
    /\ DOMAIN last.kwargs = { "temperature", "max_tokens" }
    /\ env["DEFAULT_OPENAI_MODEL"].some

\* a provider argument get_llm resolves to a client class under the
\* environment's keys
Resolvable(p) ==
    \/ p = S_auto /\ ~BothProviderKeysAbsent
    \/ p \in { S_openai, S_OpenAI } /\ KeyPresent("OPENAI_API_KEY")
    \/ p \in { S_anthropic, S_ANTHROPIC } /\ KeyPresent("ANTHROPIC_API_KEY")

\* C8: test_llm_connection never raises; it returns True exactly when a client
\* was resolved and built and its invoke call succeeded, and False otherwise.
C8_TestConnectionNeverRaises ==
    Tested =>
        /\ ~last.res.raised
        /\ last.res.value \in BOOLEAN
        /\ last.res.value =
              (Resolvable(last.provider) /\ last.ctorOk /\ last.invokeOk)

\* C8 witness: test_llm_connection returned False after the invoke call of a
\* resolved client failed.
C8_Witness ==
    /\ Tested
    /\ Resolvable(last.provider)
    /\ last.ctorOk
    /\ ~last.invokeOk
    /\ last.res.value = FALSE
    /\ last.res.caught = E_ProviderCall

\* C9: one call of test_llm_connection makes exactly one outbound invoke call
\* when a client was resolved and built, and none otherwise, so a failed invoke
\* is not retried; get_llm makes no outbound call.
C9_AtMostOneInvoke ==
    /\ Tested =>
          /\ Len(outbound) <= 1
          /\ \A i \in 1..Len(outbound) : outbound[i] = "invoke"
          /\ (Len(outbound) = 1) = (Resolvable(last.provider) /\ last.ctorOk)
    /\ GotLlm => outbound = << >>

\* C9 witness: the single invoke call of a test_llm_connection call failed and
\* was the only outbound call.
C9_Witness ==
    /\ Tested
    /\ ~last.invokeOk
    /\ last.res.caught = E_ProviderCall
    /\ outbound = << "invoke" >>

\* C10: the import of the settings module never fails, whatever the
\* environment holds, and a key that is not set is None in Settings.
C10_ImportNeverFails ==
    /\ pc # "import_failed"
    /\ pc \in { "ready", "returned" } =>
          \A k \in CredentialVars : ~env[k].some => settings[k] = None

\* C12: get_llm matches "openai" and "anthropic" whatever the letter case, and
\* "auto" only in lower case: with the provider's key present a case variant
\* of an explicit name gives what the lower-case name gives, the client of that
\* provider; a case variant of "auto" other than "auto" itself selects nothing
\* and raises the unsupported-provider error even when a key is present.
C12_CaseOfProviderNames ==
    GotLlm =>
        LET low == Lower(last.provider) IN
        /\ (/\ low \in { S_openai, S_anthropic }
            /\ last.provider # low
            /\ KeyPresent(KeyVarOf(low))) =>
               /\ last.res =
                     get_llm(settings, low, last.model, last.kwargs, last.ctorOk)
               /\ ConstructorReached
               /\ ClassReached = ClassOf(low)
               /\ (last.ctorOk /\ "api_key" \notin DOMAIN last.kwargs)
                      => ~last.res.raised
        /\ (low = S_auto /\ last.provider # S_auto /\ ~BothProviderKeysAbsent) =>
               /\ last.res.raised
               /\ last.res.err = E_UnsupportedProvider

\* C12 witness: get_llm("ANTHROPIC") returned an Anthropic client.
C12_Witness ==
    /\ GotLlm
    /\ last.provider = S_ANTHROPIC
    /\ ~last.res.raised
    /\ last.res.value.cls = "ChatAnthropic"

\* C12 second case reached: get_llm("Auto") raised the unsupported-provider
\* error with the OpenAI key present.
C12_AutoVariantReached ==
    /\ GotLlm
    /\ last.provider = S_Auto
    /\ KeyPresent("OPENAI_API_KEY")
    /\ last.res.raised
    /\ last.res.err = E_UnsupportedProvider

\* the statements of lesson 1's main, in program order
MainSteps ==
    << "print_config_status", "test_llm_connection", "simple_llm_call",
       "compare_providers", "demonstrate_parameters", "batch_processing",
       "streaming_response" >>
Examples ==
    { "simple_llm_call", "compare_providers", "demonstrate_parameters",
      "batch_processing", "streaming_response" }
ExampleStarted == \E i \in 1..Len(main.trace) : main.trace[i] \in Examples

\* C11: lesson 1's main runs print_config_status, test_llm_connection and the
\* five examples in that order; an example, and so an example's invoke or
\* stream call, is started only after test_llm_connection returned True; when
\* it returned False main returns with no example run; and when
\* print_config_status raises, both keys being absent, neither the connection
\* test nor an example runs.
C11_MainOrder ==
    pc = "main" =>
        /\ main.trace = SubSeq(MainSteps, 1, Len(main.trace))
        /\ ExampleStarted => main.connected = "True"
        /\ (outbound # << >> /\ main.connected # "True") =>
               main.trace = << "print_config_status", "test_llm_connection" >>
        /\ main.connected = "False" =>
               /\ main.at = "returned"
               /\ main.trace = << "print_config_status", "test_llm_connection" >>
        /\ BothProviderKeysAbsent =>
               /\ main.at = "raised"
               /\ main.trace = << "print_config_status" >>
               /\ outbound = << >>

\* C11 witness: main ran to its end, the connection test having returned
\* True, every step in order, the last example having made its stream call.
C11_Witness ==
    /\ pc = "main"
    /\ main.at = "done"
    /\ main.connected = "True"
    /\ main.trace = MainSteps
    /\ outbound = << "stream" >>

\* C11, the other cases reached: main returned after a failed connection
\* test whose invoke call was made, and main left by the exception of
\* print_config_status.
C11_ReturnedReached ==
    /\ pc = "main"
    /\ main.at = "returned"
    /\ main.connected = "False"
    /\ outbound = << "invoke" >>
C11_RaisedReached ==
    /\ pc = "main"
    /\ main.at = "raised"
    /\ BothProviderKeysAbsent
====
